---- MODULE Spec2Model ----
(***************************************************************************)
(* Model of mwm_xcb: the X11 event pipeline of the mwm window manager.     *)
(*                                                                         *)
(* One iteration of the bevy schedule is                                   *)
(*   First      : wait_for_xcb_events chained into process_xcb_events      *)
(*   Update     : the lifecycle systems of plugin.rs and the shipped       *)
(*                policy system map_all_windows of main.rs                 *)
(*   PostUpdate : process_request_map, process_request_resize              *)
(*   Last       : flush_xcb                                                *)
(*                                                                         *)
(* A system of a stage reads the world as it was when the stage started    *)
(* and records its changes in its own command buffer; the buffers are      *)
(* applied when the stage ends.  The stage declares no ordering between    *)
(* its systems, so the order in which the buffers are applied is not       *)
(* fixed by the program: the model applies them in any order.              *)
(*                                                                         *)
(* An entity is a function from the names of the component types attached  *)
(* to it to their values.  A component type is named by its Rust type, so  *)
(* that a query or a removal that names a type nobody attaches, such as    *)
(* Option<IsManaged> or the pair (RequestMap, IsMapped), matches nothing.  *)
(***************************************************************************)
EXTENDS Integers, Sequences, FiniteSets, TLC

\* ------------------------------------------------------------------ bounds
MaxEntities == 2
MaxBatch == 2

Windows == {7, 9}

Region(x, y, w, h) == [x |-> x, y |-> y, w |-> w, h |-> h]
R0 == Region(0, 0, 1, 1)
R1 == Region(1, 0, 2, 1)
Regions == {R0, R1}

EntityIds == 1..MaxEntities

\* ------------------------------------------------------------ wire events
CreateNotify(w, r, o) ==
    [type |-> "CreateNotify", window |-> w, region |-> r, border_width |-> 1,
     override_redirect |-> o]
DestroyNotify(w) == [type |-> "DestroyNotify", window |-> w]
MapRequest(w) == [type |-> "MapRequest", window |-> w]
MapNotify(w) == [type |-> "MapNotify", window |-> w]
UnmapNotify(w) == [type |-> "UnmapNotify", window |-> w]
ConfigureRequest(w, r) ==
    [type |-> "ConfigureRequest", window |-> w, region |-> r, border_width |-> 1]
ConfigureNotify(w, r) ==
    [type |-> "ConfigureNotify", window |-> w, region |-> r, border_width |-> 1]

\* xcb::base::NONE, the window id that names no window
NONE == 0
\* a key press in window w with the pointer in w's child c, or in none
KeyPress(w, c) == [type |-> "KeyPress", window |-> w, child |-> c]
KeyRelease(w) == [type |-> "KeyRelease", window |-> w]
ClientMessage(w) == [type |-> "ClientMessage", window |-> w]
\* the two events of the RandR extension
ScreenChangeNotify == [type |-> "ScreenChangeNotify"]
Notify == [type |-> "Notify"]
\* an event of an extension the program knows nothing of, with its tag
Unknown == [type |-> "Unknown", response_type |-> 100]

\* A run draws its events from one family: window lifecycle with the mapping
\* events, with the geometry events, or with the input and extension events.
Families == {"mapping", "geometry", "input"}

LifecycleEvents(w) == {CreateNotify(w, R0, o) : o \in BOOLEAN} \cup {DestroyNotify(w)}
MappingEvents(w) == {MapRequest(w), MapNotify(w), UnmapNotify(w)}
GeometryEvents(w) ==
    {ConfigureRequest(w, r) : r \in Regions} \cup {ConfigureNotify(w, r) : r \in Regions}

InputEvents ==
    {KeyPress(7, 9), KeyPress(7, NONE), KeyRelease(7), ClientMessage(7),
     ScreenChangeNotify, Notify, Unknown}

\* what the server reports of one window that exists throughout the run
NotifyEvents(w) ==
    {ConfigureNotify(w, r) : r \in Regions} \cup {MapNotify(w), UnmapNotify(w)}

WireEvents(f) ==
    IF f = "input" THEN InputEvents \cup UNION {LifecycleEvents(w) : w \in Windows}
    ELSE IF f = "notify" THEN NotifyEvents(7)
    ELSE UNION {LifecycleEvents(w) \cup (IF f = "mapping" THEN MappingEvents(w)
                                         ELSE GeometryEvents(w)) : w \in Windows}

\* every batch the server can deliver in one iteration, by length
Batches(f) == UNION {[1..n -> WireEvents(f)] : n \in 0..MaxBatch}

\* ---------------------------------------------------------------- helpers
Min(S) == CHOOSE m \in S : \A n \in S : m <= n

RECURSIVE SortedSeq(_)
SortedSeq(S) == IF S = {} THEN <<>> ELSE <<Min(S)>> \o SortedSeq(S \ {Min(S)})

RECURSIVE Flatten(_)
Flatten(ss) == IF Len(ss) = 0 THEN <<>> ELSE Head(ss) \o Flatten(Tail(ss))

Count(s, P(_)) == Cardinality({i \in DOMAIN s : P(s[i])})

\* the windows that exist on the server after the events of b, starting from l
RECURSIVE LiveAfter(_, _)
LiveAfter(l, b) ==
    IF Len(b) = 0 THEN l
    ELSE LiveAfter(IF Head(b).type = "CreateNotify" THEN l \cup {Head(b).window}
                   ELSE IF Head(b).type = "DestroyNotify" THEN l \ {Head(b).window}
                   ELSE l, Tail(b))

\* the server creates a window id only while it is unused and destroys it
\* only while it exists
RECURSIVE WellFormed(_, _)
WellFormed(l, b) ==
    IF Len(b) = 0 THEN TRUE
    ELSE /\ Head(b).type = "CreateNotify" => Head(b).window \notin l
         /\ Head(b).type = "DestroyNotify" => Head(b).window \in l
         /\ WellFormed(LiveAfter(l, <<Head(b)>>), Tail(b))

\* ------------------------------------------------------------------ state
VARIABLES
    family,    \* the family of events this run receives
    pc,        \* the system that runs next
    batch,     \* wire events of this iteration, in arrival order
    events,    \* domain events of this iteration, in the order they were sent
    world,     \* entity id -> (component type -> value)
    added,     \* <<entity, component>> attached since its consumer last ran
    buffers,   \* system -> its command buffer
    requests,  \* protocol requests sent and not yet flushed
    live,      \* windows created and not destroyed, by the events received
    pre,       \* the world when this iteration started
    owed,      \* windows whose map request of the previous iteration is unmet
    balanced,  \* windows counted to have got a MapWindow for each MapRequest so far
    log,       \* the warnings logged since the last wait for events began
    queue,     \* what the connection held for this iteration, in arrival order
    init_pc,   \* connection -> how far its XConn::init has got
    RANDR_BASE,\* the process-wide base event code of the extension
    randr_base,\* connection -> the base code the server gave it
    replies,   \* connection -> the atom replies collected so far
    xconn,     \* connection -> its XConn (<<>> while there is none)
    sent,      \* connection -> the requests it has issued, in order
    checked,   \* connection -> the requests whose reply it has awaited
    acquired   \* connection -> what its set_randr_base returned

loop == <<family, pc, batch, events, world, added, buffers, requests, live, pre, owed, log,
          queue, balanced>>
boot == <<init_pc, RANDR_BASE, randr_base, replies, xconn, sent, checked, acquired>>
vars == <<loop, boot>>

\* ============================================================== bootstrap
\* XConn::init, run by from_world when the plugin is built, and XConn's Drop.
\* Several connections of one process are modelled so that their
\* set_randr_base calls can race.
MaxConns == 2
Conns == 1..MaxConns

\* base event codes a server may assign to the extension
BaseCodes == {89, 90}

\* the value of RANDR_BASE while no connection has set it
RANDR_UNSET == 255

\* Atom::ALL, in declaration order
Atom_ALL ==
    <<"Manager", "UTF8String", "WmClass", "WmProtocols", "WmName",
      "NetActiveWindow", "NetWmName", "NetWmState", "NetWmStateFullscreen">>
Atoms == {Atom_ALL[i] : i \in DOMAIN Atom_ALL}

as_str(atom) ==
    CASE atom = "Manager" -> "MANAGER"
      [] atom = "UTF8String" -> "UTF8_STRING"
      [] atom = "WmClass" -> "WM_CLASS"
      [] atom = "WmProtocols" -> "WM_PROTOCOLS"
      [] atom = "WmName" -> "WM_NAME"
      [] atom = "NetActiveWindow" -> "_NET_ACTIVE_WINDOW"
      [] atom = "NetWmName" -> "_NET_WM_NAME"
      [] atom = "NetWmState" -> "_NET_WM_STATE"
      [] atom = "NetWmStateFullscreen" -> "_NET_WM_STATE_FULLSCREEN"

InternAtom(name) == [req |-> "InternAtom", name |-> name]
CreateWindow == [req |-> "CreateWindow"]
SelectInput == [req |-> "RRSelectInput"]
UngrabKey == [req |-> "UngrabKey"]
DestroyWindow == [req |-> "DestroyWindow"]
DeleteProperty(atom) == [req |-> "DeleteProperty", atom |-> atom]

None == <<>>
NoAtoms == [a \in {} |-> 0]

\* xcb::Connection::connect and the lookup of the first screen's root
connect(c) ==
    /\ init_pc[c] = "connect"
    /\ \E ok \in BOOLEAN :
          init_pc' = [init_pc EXCEPT ![c] = IF ok THEN "send" ELSE "failed"]
    /\ UNCHANGED <<RANDR_BASE, randr_base, replies, xconn, sent, checked, acquired>>
    /\ UNCHANGED loop

\* the intern_atom requests, create_window and randr::select_input are
\* issued; none of their replies is awaited yet
send_requests(c) ==
    /\ init_pc[c] = "send"
    /\ sent' = [sent EXCEPT ![c] =
                  [i \in DOMAIN Atom_ALL |-> InternAtom(as_str(Atom_ALL[i]))]
                      \o <<CreateWindow, SelectInput>>]
    /\ init_pc' = [init_pc EXCEPT ![c] = "get_extension_data"]
    /\ UNCHANGED <<RANDR_BASE, randr_base, replies, xconn, checked, acquired>>
    /\ UNCHANGED loop

\* get_extension_data(randr): the extension's first event code, or nothing
get_extension_data(c) ==
    /\ init_pc[c] = "get_extension_data"
    /\ \/ /\ \E b \in BaseCodes : randr_base' = [randr_base EXCEPT ![c] = b]
          /\ init_pc' = [init_pc EXCEPT ![c] = "set_randr_base"]
       \/ /\ init_pc' = [init_pc EXCEPT ![c] = "failed"]
          /\ UNCHANGED randr_base
    /\ UNCHANGED <<RANDR_BASE, replies, xconn, sent, checked, acquired>>
    /\ UNCHANGED loop

\* set_randr_base if it stored randr_base without comparing RANDR_BASE
\* with 0xff first
set_randr_base_store(current, base) == [ok |-> TRUE, value |-> base]
\* RANDR_BASE.compare_exchange(0xff, randr_base): the value left in
\* RANDR_BASE and whether the exchange took place
set_randr_base_result(current, base) ==
    IF current = RANDR_UNSET
    THEN [ok |-> TRUE, value |-> base]
    ELSE [ok |-> FALSE, value |-> current]

\* one atomic step; an Err makes init return "an active XConn already exists"
set_randr_base(c) ==
    /\ init_pc[c] = "set_randr_base"
    /\ LET r == set_randr_base_result(RANDR_BASE, randr_base[c])
       IN  /\ RANDR_BASE' = r.value
           /\ acquired' = [acquired EXCEPT ![c] = IF r.ok THEN "Ok" ELSE "Err"]
           /\ init_pc' = [init_pc EXCEPT ![c] = IF r.ok THEN "atoms" ELSE "failed"]
    /\ UNCHANGED <<randr_base, replies, xconn, sent, checked>>
    /\ UNCHANGED loop

\* collect::<Result<_>>() over the zipped replies if an Err reply were
\* skipped instead of ending the collection
collect_skip_err(acc, atom, reply) ==
    [err |-> FALSE,
     atoms |-> IF reply.ok
               THEN [a \in DOMAIN acc \cup {atom} |->
                        IF a = atom THEN reply.atom ELSE acc[a]]
               ELSE acc]
\* collect::<Result<_>>() over the zipped replies: one more (atom, reply)
\* pair; the first Err ends the collection
collect(acc, atom, reply) ==
    IF reply.ok
    THEN [err |-> FALSE,
          atoms |-> [a \in DOMAIN acc \cup {atom} |->
                        IF a = atom THEN reply.atom ELSE acc[a]]]
    ELSE [err |-> TRUE, atoms |-> acc]

\* the atom whose reply is awaited next: replies are taken in the order of
\* Atom::ALL
NextAtom(c) == Len(checked[c]) + 1

\* cookie.get_reply() of the next intern_atom cookie; the server answers
\* with the atom's id or an error
get_reply(c) ==
    /\ init_pc[c] = "atoms"
    /\ NextAtom(c) <= Len(Atom_ALL)
    /\ \E ok \in BOOLEAN :
          LET n == NextAtom(c)
              r == collect(replies[c], Atom_ALL[n], [ok |-> ok, atom |-> n])
          IN  /\ replies' = [replies EXCEPT ![c] = r.atoms]
              /\ checked' = [checked EXCEPT ![c] = Append(@, sent[c][n])]
              /\ init_pc' = [init_pc EXCEPT ![c] =
                                IF r.err THEN "failed"
                                ELSE IF n = Len(Atom_ALL)
                                     THEN "create_window_check"
                                     ELSE "atoms"]
    /\ UNCHANGED <<RANDR_BASE, randr_base, xconn, sent, acquired>>
    /\ UNCHANGED loop

\* create_window_cookie.request_check()?
create_window_check(c) ==
    /\ init_pc[c] = "create_window_check"
    /\ checked' = [checked EXCEPT ![c] = Append(@, CreateWindow)]
    /\ \E ok \in BOOLEAN :
          init_pc' = [init_pc EXCEPT ![c] =
                         IF ok THEN "select_input_check" ELSE "failed"]
    /\ UNCHANGED <<RANDR_BASE, randr_base, replies, xconn, sent, acquired>>
    /\ UNCHANGED loop

\* select_input_cookie.request_check()? and Ok(XConn { .. })
select_input_check(c) ==
    /\ init_pc[c] = "select_input_check"
    /\ checked' = [checked EXCEPT ![c] = Append(@, SelectInput)]
    /\ \E ok \in BOOLEAN :
          /\ init_pc' = [init_pc EXCEPT ![c] = IF ok THEN "from_world" ELSE "failed"]
          /\ xconn' = [xconn EXCEPT ![c] =
                          IF ok THEN [atoms |-> replies[c]] ELSE None]
    /\ UNCHANGED <<RANDR_BASE, randr_base, replies, sent, acquired>>
    /\ UNCHANGED loop

\* from_world returns the XConn, the resource is in place and the runner
\* starts its loop
from_world(c) ==
    /\ init_pc[c] = "from_world"
    /\ init_pc' = [init_pc EXCEPT ![c] = "running"]
    /\ UNCHANGED <<RANDR_BASE, randr_base, replies, xconn, sent, checked, acquired>>
    /\ UNCHANGED loop

atom_id(c, atom) == xconn[c].atoms[atom]

Flush == [req |-> "flush"]

\* the requests of Drop for XConn if the check window were destroyed after
\* the flush
teardown_flush_early(c) ==
    <<UngrabKey, DeleteProperty(atom_id(c, "NetActiveWindow")), Flush, DestroyWindow>>
\* the requests of Drop for XConn, in the order it issues them, and its
\* flush
teardown(c) ==
    <<UngrabKey, DestroyWindow, DeleteProperty(atom_id(c, "NetActiveWindow")), Flush>>

\* Drop for XConn, up to self.flush()
drop(c) ==
    /\ init_pc[c] = "running"
    /\ sent' = [sent EXCEPT ![c] = @ \o teardown(c)]
    /\ init_pc' = [init_pc EXCEPT ![c] = "reset_randr_base"]
    /\ UNCHANGED <<RANDR_BASE, randr_base, replies, xconn, checked, acquired>>
    /\ UNCHANGED loop

\* xcb_event_type::reset_randr_base(), the last statement of Drop; the XConn
\* is gone when it returns
reset_randr_base(c) ==
    /\ init_pc[c] = "reset_randr_base"
    /\ RANDR_BASE' = RANDR_UNSET
    /\ xconn' = [xconn EXCEPT ![c] = None]
    /\ init_pc' = [init_pc EXCEPT ![c] = "dropped"]
    /\ UNCHANGED <<randr_base, replies, sent, checked, acquired>>
    /\ UNCHANGED loop

\* no connection has been attempted
InitBoot ==
    /\ init_pc = [c \in Conns |-> "connect"]
    /\ RANDR_BASE = RANDR_UNSET
    /\ randr_base = [c \in Conns |-> RANDR_UNSET]
    /\ replies = [c \in Conns |-> NoAtoms]
    /\ xconn = [c \in Conns |-> None]
    /\ sent = [c \in Conns |-> <<>>]
    /\ checked = [c \in Conns |-> <<>>]
    /\ acquired = [c \in Conns |-> "None"]

\* the first connection's init has returned Ok and its loop runs
Bootstrapped ==
    LET base == CHOOSE b \in BaseCodes : \A o \in BaseCodes : b <= o
        all == [a \in Atoms |-> CHOOSE i \in DOMAIN Atom_ALL : Atom_ALL[i] = a]
        reqs == [i \in DOMAIN Atom_ALL |-> InternAtom(as_str(Atom_ALL[i]))]
                    \o <<CreateWindow, SelectInput>>
    IN  /\ init_pc = [c \in Conns |-> IF c = 1 THEN "running" ELSE "connect"]
        /\ RANDR_BASE = base
        /\ randr_base = [c \in Conns |-> IF c = 1 THEN base ELSE RANDR_UNSET]
        /\ replies = [c \in Conns |-> IF c = 1 THEN all ELSE NoAtoms]
        /\ xconn = [c \in Conns |-> IF c = 1 THEN [atoms |-> all] ELSE None]
        /\ sent = [c \in Conns |-> IF c = 1 THEN reqs ELSE <<>>]
        /\ checked = [c \in Conns |-> IF c = 1 THEN reqs ELSE <<>>]
        /\ acquired = [c \in Conns |-> IF c = 1 THEN "Ok" ELSE "None"]

UpdateSystems ==
    <<"spawn_windows", "despawn_windows", "map_unmanaged_windows",
      "mark_mapped_windows", "mark_unmapped_windows",
      "mark_preffered_size_windows", "mark_size_windows", "map_all_windows">>
PostUpdateSystems == <<"process_request_map", "process_request_resize">>
Systems == {UpdateSystems[i] : i \in DOMAIN UpdateSystems}
               \cup {PostUpdateSystems[i] : i \in DOMAIN PostUpdateSystems}

NoEntities == [id \in {} |-> <<>>]
NoBuffers == [s \in Systems |-> <<>>]

Init ==
    /\ family \in Families
    /\ pc = "wait_for_xcb_events"
    /\ batch = <<>>
    /\ queue = <<>>
    /\ events = <<>>
    /\ world = NoEntities
    /\ added = {}
    /\ buffers = NoBuffers
    /\ requests = <<>>
    /\ live = {}
    /\ pre = NoEntities
    /\ owed = {}
    /\ balanced = {}
    /\ log = <<>>
    /\ Bootstrapped

\* --------------------------------------------------------------- commands
Spawn(id) == [op |-> "spawn", entity |-> id]
Insert(id, c, v) == [op |-> "insert", entity |-> id, comp |-> c, value |-> v]
Remove(id, c) == [op |-> "remove", entity |-> id, comp |-> c]
Despawn(id) == [op |-> "despawn", entity |-> id]

Has(wd, id, c) == id \in DOMAIN wd /\ c \in DOMAIN wd[id]
WithoutKey(f, k) == [x \in DOMAIN f \ {k} |-> f[x]]

\* the markers some system filters with Added<..>
Tracked == {"RequestMap", "RequestSize", "RequestBorder"}

\* st = [world, added, panicked]
ApplyCommand(st, c) ==
    IF st.panicked THEN st
    ELSE IF c.op = "spawn" THEN
        [st EXCEPT !.world = (c.entity :> <<>>) @@ st.world]
    ELSE IF c.op = "insert" THEN
        IF c.entity \notin DOMAIN st.world
        THEN [st EXCEPT !.panicked = TRUE]
        ELSE [st EXCEPT
                !.world = [st.world EXCEPT ![c.entity] = (c.comp :> c.value) @@ @],
                !.added = IF c.comp \in Tracked /\ ~Has(st.world, c.entity, c.comp)
                          THEN @ \cup {<<c.entity, c.comp>>} ELSE @]
    ELSE IF c.op = "remove" THEN
        IF Has(st.world, c.entity, c.comp)
        THEN [st EXCEPT
                !.world = [st.world EXCEPT ![c.entity] = WithoutKey(@, c.comp)],
                !.added = @ \ {<<c.entity, c.comp>>}]
        ELSE st
    ELSE \* despawn
        IF c.entity \in DOMAIN st.world
        THEN [st EXCEPT
                !.world = WithoutKey(@, c.entity),
                !.added = {p \in @ : p[1] # c.entity}]
        ELSE st

RECURSIVE ApplyAll(_, _)
ApplyAll(st, cmds) ==
    IF Len(cmds) = 0 THEN st ELSE ApplyAll(ApplyCommand(st, Head(cmds)), Tail(cmds))

\* ------------------------------------------------------------ First stage
\* Blocks for the first event, then drains the queue.  A batch with no event
\* is what is left when the blocking wait returns None.
\* the loop `while let Some(ev) = poll_for_event()`: every event the queue
\* holds is pushed, in order, until the poll reports that the queue is empty
RECURSIVE poll_all(_)
poll_all(q) == IF Len(q) = 0 THEN <<>> ELSE <<Head(q)>> \o poll_all(Tail(q))

\* the buffer wait_for_xcb_events returns for what the connection holds; the
\* blocking wait returns None only when the connection has nothing to give
\* and never will (it has failed), which the empty queue stands for
wait_result(q) == IF Len(q) = 0 THEN <<>> ELSE <<Head(q)>> \o poll_all(Tail(q))

wait_for_xcb_events ==
    /\ pc = "wait_for_xcb_events"
    /\ \E q \in Batches(family) :
        /\ WellFormed(live, q)
        /\ Count(q, LAMBDA e : e.type = "CreateNotify")
               <= MaxEntities - Cardinality(DOMAIN world)
        /\ queue' = q
        /\ batch' = wait_result(q)
        /\ live' = LiveAfter(live, q)
    /\ pre' = world
    /\ log' = <<>>
    /\ pc' = "process_xcb_events"
    /\ UNCHANGED <<boot, family, events, world, added, buffers, requests, owed, balanced>>

\* the event codes try_from matches as constants, with the variant of each
XcbEventTypes ==
    0 :> "ScreenChangeNotify" @@
    2 :> "KeyPress" @@ 3 :> "KeyRelease" @@ 4 :> "ButtonPress" @@
    5 :> "ButtonRelease" @@ 6 :> "MotionNotify" @@ 7 :> "EnterNotify" @@
    8 :> "LeaveNotify" @@ 9 :> "FocusIn" @@ 10 :> "FocusOut" @@
    11 :> "KeymapNotify" @@ 12 :> "Expose" @@ 13 :> "GraphicsExposure" @@
    14 :> "NoExposure" @@ 15 :> "VisibilityNotify" @@ 16 :> "CreateNotify" @@
    17 :> "DestroyNotify" @@ 18 :> "UnmapNotify" @@ 19 :> "MapNotify" @@
    20 :> "MapRequest" @@ 21 :> "ReparentNotify" @@ 22 :> "ConfigureNotify" @@
    23 :> "ConfigureRequest" @@ 24 :> "GravityNotify" @@ 25 :> "ResizeRequest" @@
    26 :> "CirculateNotify" @@ 27 :> "CirculateRequest" @@
    28 :> "PropertyNotify" @@ 29 :> "SelectionClear" @@
    30 :> "SelectionRequest" @@ 31 :> "SelectionNotify" @@
    32 :> "ColormapNotify" @@ 33 :> "ClientMessage" @@ 34 :> "MappingNotify" @@
    35 :> "Generic"

\* the offsets of the two RandR events from the base code of the extension
RandrCodes == [ScreenChangeNotify |-> 0, Notify |-> 1]

\* the tag the server puts on the wire for the event e: the protocol's code
\* of a core event, the base code plus the offset of an extension event
response_type(e) ==
    IF "response_type" \in DOMAIN e THEN e.response_type
    ELSE IF e.type \in DOMAIN RandrCodes THEN RANDR_BASE + RandrCodes[e.type]
    ELSE CHOOSE t \in DOMAIN XcbEventTypes \ {0} : XcbEventTypes[t] = e.type

Ok(v) == [ok |-> TRUE, value |-> v]
Err(v) == [ok |-> FALSE, value |-> v]

try_from(etype) ==
    LET masked == etype % 128
    IN  IF masked \in DOMAIN XcbEventTypes THEN Ok(XcbEventTypes[masked])
        ELSE IF /\ RANDR_BASE # RANDR_UNSET
                /\ masked >= RANDR_BASE
                /\ masked - RANDR_BASE = RandrCodes.Notify
             THEN Ok("RandrNotify")
        ELSE Err(masked)

\* the event types process_xcb_events has a writer and a match arm for
Forwarded ==
    {"ButtonPress", "ButtonRelease", "ConfigureNotify", "ConfigureRequest",
     "CreateNotify", "DestroyNotify", "EnterNotify", "FocusIn", "FocusOut",
     "KeyPress", "LeaveNotify", "MapNotify", "MapRequest", "MotionNotify",
     "UnmapNotify"}

\* XWinId::from_raw_nullable: no id for NONE
from_raw_nullable(raw) == IF raw = NONE THEN None ELSE <<raw>>

\* XWinId::from_raw: the id, or the panic of
\* expect("attempted to create NULL window id")
from_raw(raw) ==
    IF from_raw_nullable(raw) = None
    THEN [panicked |-> TRUE]
    ELSE [panicked |-> FALSE, value |-> from_raw_nullable(raw)[1]]

\* the match arm of a forwarded event: the arms of the key, button, motion,
\* enter and leave events build the child id with from_raw
arm(e, etype) ==
    IF "child" \in DOMAIN e /\ from_raw(e.child).panicked
    THEN [events |-> <<>>, log |-> <<>>, panicked |-> TRUE]
    ELSE [events |-> <<[e EXCEPT !.type = etype]>>, log |-> <<>>, panicked |-> FALSE]

\* one pass of the loop of process_xcb_events: the domain events sent and
\* the warnings logged for the wire event e, and whether the pass panicked
forward_unrecognized_kept(e) ==
    LET etype == try_from(response_type(e))
    IN  IF ~etype.ok
        THEN [events |-> <<e>>, log |-> <<"unrecognized event type">>, panicked |-> FALSE]
        ELSE IF etype.value \in Forwarded THEN arm(e, etype.value)
        ELSE [events |-> <<>>, log |-> <<>>, panicked |-> FALSE]

forward(e) ==
    LET etype == try_from(response_type(e))
    IN  IF ~etype.ok
        THEN [events |-> <<>>, log |-> <<"unrecognized event type">>, panicked |-> FALSE]
        ELSE IF etype.value \in Forwarded THEN arm(e, etype.value)
        ELSE [events |-> <<>>, log |-> <<>>, panicked |-> FALSE]

\* the loop over the batch; a panic ends it and the process
RECURSIVE decode(_)
decode(b) ==
    IF Len(b) = 0 THEN [events |-> <<>>, log |-> <<>>, panicked |-> FALSE]
    ELSE LET first == forward(Head(b))
             rest == decode(Tail(b))
         IN  IF first.panicked THEN first
             ELSE [events |-> first.events \o rest.events, log |-> first.log \o rest.log,
                   panicked |-> rest.panicked]

process_xcb_events ==
    /\ pc = "process_xcb_events"
    /\ events' = decode(batch).events
    /\ log' = log \o decode(batch).log
    /\ pc' = IF decode(batch).panicked THEN "panicked" ELSE UpdateSystems[1]
    /\ UNCHANGED <<boot, family, queue, batch, world, added, buffers, requests, live, pre, owed, balanced>>

\* ----------------------------------------------------------- Update stage
\* what an EventReader<T> yields in this iteration
EventReader(T) == SelectSeq(events, LAMBDA e : e.type = T)

\* the entities a query over (Entity, &Window) with filter Q yields
QueryIds(Q(_)) == SortedSeq({id \in DOMAIN world : "Window" \in DOMAIN world[id] /\ Q(id)})

\* for e in events { for (entity, window) in query { if window == e.window {..} } }
ForEachMatch(evs, ids, Cmds(_, _)) ==
    Flatten([i \in 1..Len(evs) |->
        Flatten([j \in 1..Len(ids) |->
            IF world[ids[j]]["Window"] = evs[i].window
            THEN Cmds(ids[j], evs[i]) ELSE <<>>])])

\* the system after s in its stage, or the step that applies the buffers
NextOf(stage, s, done) ==
    LET i == CHOOSE k \in DOMAIN stage : stage[k] = s
    IN  IF i < Len(stage) THEN stage[i + 1] ELSE done

RunUpdate(s, cmds) ==
    /\ pc = s
    /\ buffers' = [buffers EXCEPT ![s] = cmds]
    /\ pc' = NextOf(UpdateSystems, s, "apply_update")
    /\ UNCHANGED <<boot, log, family, queue, batch, events, world, added, requests, live, pre, owed, balanced>>

\* entity ids free for commands.spawn() to reserve
FreeIds == EntityIds \ DOMAIN world

\* spawn_windows if IsManaged went to the windows that set override_redirect
spawn_windows_cmds_flag_inverted ==
    LET evs == EventReader("CreateNotify")
        ids == SortedSeq(FreeIds)
    IN  Flatten([i \in 1..Len(evs) |->
            <<Spawn(ids[i]),
              Insert(ids[i], "Window", evs[i].window),
              Insert(ids[i], "PrefferedSize", evs[i].region)>>
            \o (IF evs[i].override_redirect
                THEN <<Insert(ids[i], "IsManaged", TRUE)>> ELSE <<>>)])

spawn_windows_cmds ==
    LET evs == EventReader("CreateNotify")
        ids == SortedSeq(FreeIds)
    IN  Flatten([i \in 1..Len(evs) |->
            <<Spawn(ids[i]),
              Insert(ids[i], "Window", evs[i].window),
              Insert(ids[i], "PrefferedSize", evs[i].region)>>
            \o (IF ~evs[i].override_redirect
                THEN <<Insert(ids[i], "IsManaged", TRUE)>> ELSE <<>>)])

spawn_windows == RunUpdate("spawn_windows", spawn_windows_cmds)

\* a handler that despawns every window entity on any DestroyNotify
despawn_windows_cmds_any_window ==
    LET ids == QueryIds(LAMBDA id : TRUE)
    IN  Flatten([i \in 1..Len(EventReader("DestroyNotify")) |->
                    [j \in 1..Len(ids) |-> Despawn(ids[j])]])

despawn_windows_cmds ==
    ForEachMatch(EventReader("DestroyNotify"), QueryIds(LAMBDA id : TRUE),
                 LAMBDA id, e : <<Despawn(id)>>)

despawn_windows == RunUpdate("despawn_windows", despawn_windows_cmds)

\* a handler that marks the window mapped as soon as it asks for the mapping
map_unmanaged_windows_cmds_speculative ==
    ForEachMatch(EventReader("MapRequest"),
                 QueryIds(LAMBDA id : /\ "IsMapped" \notin DOMAIN world[id]
                                      /\ "IsManaged" \notin DOMAIN world[id]),
                 LAMBDA id, e : <<Insert(id, "RequestMap", "Map"),
                                  Insert(id, "IsMapped", TRUE)>>)

map_unmanaged_windows_cmds ==
    ForEachMatch(EventReader("MapRequest"),
                 QueryIds(LAMBDA id : /\ "IsMapped" \notin DOMAIN world[id]
                                      /\ "IsManaged" \notin DOMAIN world[id]),
                 LAMBDA id, e : <<Insert(id, "RequestMap", "Map")>>)

map_unmanaged_windows == RunUpdate("map_unmanaged_windows", map_unmanaged_windows_cmds)

mark_mapped_windows_cmds ==
    ForEachMatch(EventReader("MapNotify"), QueryIds(LAMBDA id : TRUE),
                 LAMBDA id, e : <<Remove(id, "RequestMap"), Insert(id, "IsMapped", TRUE)>>)

mark_mapped_windows == RunUpdate("mark_mapped_windows", mark_mapped_windows_cmds)

\* remove::<T>() removes the one component whose type is T, here the pair
\* type (RequestMap, IsMapped); a bundle of two components is removed by
\* remove_bundle
mark_unmapped_windows_cmds ==
    ForEachMatch(EventReader("UnmapNotify"), QueryIds(LAMBDA id : TRUE),
                 LAMBDA id, e : <<Remove(id, "(RequestMap, IsMapped)")>>)

mark_unmapped_windows == RunUpdate("mark_unmapped_windows", mark_unmapped_windows_cmds)

\* the query fetches &Option<IsManaged>: a component of that type
mark_preffered_size_windows_cmds ==
    ForEachMatch(EventReader("ConfigureRequest"),
                 QueryIds(LAMBDA id : "Option<IsManaged>" \in DOMAIN world[id]),
                 LAMBDA id, e :
                    <<Insert(id, "PrefferedSize", e.region)>>
                    \o (IF world[id]["Option<IsManaged>"] = "None"
                        THEN <<Insert(id, "RequestConfigure", e.region)>> ELSE <<>>))

mark_preffered_size_windows ==
    RunUpdate("mark_preffered_size_windows", mark_preffered_size_windows_cmds)

mark_size_windows_cmds ==
    ForEachMatch(EventReader("ConfigureNotify"), QueryIds(LAMBDA id : TRUE),
                 LAMBDA id, e : <<Insert(id, "Size", e.region)>>)

mark_size_windows == RunUpdate("mark_size_windows", mark_size_windows_cmds)

\* the policy system main.rs adds to the Update stage
map_all_windows_cmds ==
    ForEachMatch(EventReader("MapRequest"),
                 QueryIds(LAMBDA id : "IsManaged" \in DOMAIN world[id]),
                 LAMBDA id, e : <<Insert(id, "RequestMap", "Map")>>)

map_all_windows == RunUpdate("map_all_windows", map_all_windows_cmds)

\* The end of a stage applies the command buffers of its systems, one system
\* after the other, in an order the program does not fix.  An insert into an
\* entity that a buffer applied earlier has despawned panics.
ApplyBuffers(at, next) ==
    /\ pc = at
    /\ \/ /\ \E s \in Systems :
                /\ buffers[s] # <<>>
                /\ LET st == ApplyAll([world |-> world, added |-> added,
                                       panicked |-> FALSE], buffers[s])
                   IN  /\ world' = st.world
                       /\ added' = st.added
                       /\ pc' = IF st.panicked THEN "panicked"
                                ELSE IF \A t \in Systems \ {s} : buffers[t] = <<>>
                                THEN next ELSE at
                /\ buffers' = [buffers EXCEPT ![s] = <<>>]
       \/ /\ \A s \in Systems : buffers[s] = <<>>
          /\ pc' = next
          /\ UNCHANGED <<boot, log, family, world, added, buffers>>
    /\ UNCHANGED <<boot, log, family, queue, batch, events, requests, live, pre, owed, balanced>>

apply_update == ApplyBuffers("apply_update", PostUpdateSystems[1])

\* ------------------------------------------------------- PostUpdate stage
MapWindow(w) == [req |-> "MapWindow", window |-> w]
UnmapWindow(w) == [req |-> "UnmapWindow", window |-> w]
ConfigureWindow(w, vl) == [req |-> "ConfigureWindow", window |-> w, value_list |-> vl]

\* a filter that would go on reporting a marker as Added in every pass
Seen_still_added(cs) == added

\* a system that has run no longer sees the markers of cs as Added
Seen(cs) == {p \in added : p[2] \notin cs}

\* a pass that sends the request whatever the entity's IsMapped says
request_map_send_unconditional(w, is_mapped, request) ==
    IF request = "Map" THEN <<MapWindow(w)>> ELSE <<UnmapWindow(w)>>

\* the request process_request_map sends for one entity, if any
request_map_send(w, is_mapped, request) ==
    IF ~is_mapped /\ request = "Map" THEN <<MapWindow(w)>>
    ELSE IF is_mapped /\ request = "Unmap" THEN <<UnmapWindow(w)>>
    ELSE <<>>

\* a pass that keeps the marker of an entity it sent nothing for
request_map_cmds_keep_skipped(id) ==
    IF request_map_send(world[id]["Window"], "IsMapped" \in DOMAIN world[id],
                        world[id]["RequestMap"]) # <<>>
    THEN <<Remove(id, "RequestMap")>> ELSE <<>>

\* the commands process_request_map queues for one entity it has read
request_map_cmds(id) == <<Remove(id, "RequestMap")>>

process_request_map ==
    /\ pc = "process_request_map"
    /\ LET ids == QueryIds(LAMBDA id : /\ "RequestMap" \in DOMAIN world[id]
                                       /\ <<id, "RequestMap">> \in added)
       IN  /\ requests' = requests \o Flatten([j \in 1..Len(ids) |->
                  request_map_send(world[ids[j]]["Window"],
                                   "IsMapped" \in DOMAIN world[ids[j]],
                                   world[ids[j]]["RequestMap"])])
           /\ buffers' = [buffers EXCEPT !["process_request_map"] =
                  Flatten([j \in 1..Len(ids) |-> request_map_cmds(ids[j])])]
    /\ added' = Seen({"RequestMap"})
    /\ pc' = NextOf(PostUpdateSystems, "process_request_map", "apply_postupdate")
    /\ UNCHANGED <<boot, log, family, queue, batch, events, world, live, pre, owed, balanced>>

\* the value list if the width were compared with the actual height
configure_fields_width_slip(request_size, size, request_border, border) ==
    (IF request_size # <<>>
     THEN (IF request_size[1].x # size.x THEN <<<<"X", request_size[1].x>>>> ELSE <<>>)
       \o (IF request_size[1].y # size.y THEN <<<<"Y", request_size[1].y>>>> ELSE <<>>)
       \o (IF request_size[1].w # size.h THEN <<<<"Width", request_size[1].w>>>> ELSE <<>>)
       \o (IF request_size[1].h # size.h THEN <<<<"Height", request_size[1].h>>>> ELSE <<>>)
     ELSE <<>>)
    \o (IF request_border # <<>> /\ request_border[1] # border
        THEN <<<<"BorderWidth", request_border[1]>>>> ELSE <<>>)

\* the value list process_request_resize builds for one entity;
\* request_size and request_border are <<>> when the marker is absent,
\* <<value>> when it is attached
configure_fields(request_size, size, request_border, border) ==
    (IF request_size # <<>>
     THEN (IF request_size[1].x # size.x THEN <<<<"X", request_size[1].x>>>> ELSE <<>>)
       \o (IF request_size[1].y # size.y THEN <<<<"Y", request_size[1].y>>>> ELSE <<>>)
       \o (IF request_size[1].w # size.w THEN <<<<"Width", request_size[1].w>>>> ELSE <<>>)
       \o (IF request_size[1].h # size.h THEN <<<<"Height", request_size[1].h>>>> ELSE <<>>)
     ELSE <<>>)
    \o (IF request_border # <<>> /\ request_border[1] # border
        THEN <<<<"BorderWidth", request_border[1]>>>> ELSE <<>>)

\* Option<&T> of a query: <<value>> or <<>>
Opt(id, c) == IF c \in DOMAIN world[id] THEN <<world[id][c]>> ELSE <<>>

\* a pass that sends one request for every field that differs
request_resize_send_split(id) ==
    LET cmd == configure_fields(Opt(id, "RequestSize"), world[id]["Size"],
                                Opt(id, "RequestBorder"), world[id]["Border"])
    IN  [i \in DOMAIN cmd |-> ConfigureWindow(world[id]["Window"], <<cmd[i]>>)]

request_resize_send(id) ==
    LET cmd == configure_fields(Opt(id, "RequestSize"), world[id]["Size"],
                                Opt(id, "RequestBorder"), world[id]["Border"])
    IN  IF cmd # <<>> THEN <<ConfigureWindow(world[id]["Window"], cmd)>> ELSE <<>>

process_request_resize ==
    /\ pc = "process_request_resize"
    /\ LET ids == QueryIds(LAMBDA id : /\ "Size" \in DOMAIN world[id]
                                       /\ "Border" \in DOMAIN world[id]
                                       /\ \/ <<id, "RequestSize">> \in added
                                          \/ <<id, "RequestBorder">> \in added)
       IN  requests' = requests \o
               Flatten([j \in 1..Len(ids) |-> request_resize_send(ids[j])])
    /\ added' = Seen({"RequestSize", "RequestBorder"})
    /\ pc' = NextOf(PostUpdateSystems, "process_request_resize", "apply_postupdate")
    /\ UNCHANGED <<boot, log, family, queue, batch, events, world, buffers, live, pre, owed, balanced>>

\* the end of PostUpdate if the iteration went on without the Last stage
apply_postupdate_no_flush == ApplyBuffers("apply_postupdate", "wait_for_xcb_events")
apply_postupdate == ApplyBuffers("apply_postupdate", "flush_xcb")

\* ------------------------------------------------------------- Last stage
\* the windows for which this iteration received a MapRequest while an
\* entity of that window, which still exists, had neither IsMapped nor
\* IsManaged
MapOwedNow ==
    {w \in Windows :
        /\ \E i \in DOMAIN events : events[i] = MapRequest(w)
        /\ \E id \in DOMAIN pre \cap DOMAIN world :
              /\ pre[id]["Window"] = w
              /\ "IsMapped" \notin DOMAIN pre[id]
              /\ "IsManaged" \notin DOMAIN pre[id]}

MapsSent(w) == Count(requests, LAMBDA r : r = MapWindow(w))

\* the MapRequest events of window w in the batch of this iteration
MapRequestsReceived(w) == Count(batch, LAMBDA e : e = MapRequest(w))

\* what flush_xcb does with the result of xconn.flush(): a failure is
\* logged as a warning and the system returns
flush_result(res) ==
    [log |-> IF res THEN <<>> ELSE <<"xcb flush returned error">>,
     pc |-> "wait_for_xcb_events"]

flush_xcb ==
    /\ pc = "flush_xcb"
    /\ \E res \in BOOLEAN :
          /\ log' = log \o flush_result(res).log
          /\ pc' = flush_result(res).pc
    /\ requests' = <<>>
    /\ owed' = {w \in MapOwedNow : MapsSent(w) = 0}
    /\ balanced' = {w \in balanced : MapRequestsReceived(w) = MapsSent(w)}
    /\ batch' = <<>>
    /\ queue' = <<>>
    /\ events' = <<>>
    /\ pre' = NoEntities
    /\ UNCHANGED <<boot, family, world, added, buffers, live>>

Next ==
    \/ wait_for_xcb_events
    \/ process_xcb_events
    \/ spawn_windows
    \/ despawn_windows
    \/ map_unmanaged_windows
    \/ mark_mapped_windows
    \/ mark_unmapped_windows
    \/ mark_preffered_size_windows
    \/ mark_size_windows
    \/ map_all_windows
    \/ apply_update
    \/ process_request_map
    \/ process_request_resize
    \/ apply_postupdate
    \/ flush_xcb

Spec == Init /\ [][Next]_vars

\* the loop's state while connections are being set up
LoopNotStarted ==
    /\ family = "mapping"
    /\ pc = "wait_for_xcb_events"
    /\ batch = <<>>
    /\ queue = <<>>
    /\ events = <<>>
    /\ world = NoEntities
    /\ added = {}
    /\ buffers = NoBuffers
    /\ requests = <<>>
    /\ live = {}
    /\ pre = NoEntities
    /\ owed = {}
    /\ balanced = {}
    /\ log = <<>>

\* ---------------------------------------------- reconciliation of sizes
\* process_request_resize reads Border, RequestSize and RequestBorder, which
\* the systems of the plugin do not attach: they come from the systems of
\* the application that uses it.  The entity is drawn here as such systems
\* can leave it when the PostUpdate stage starts.
MaxCoord == 1
Coords == 0..MaxCoord
SmallRegions == {Region(x, y, w, h) : x \in Coords, y \in Coords, w \in Coords, h \in Coords}
Borders == Coords

\* an entity of window w with Size and Border, and with the markers given
\* as <<value>> (attached) or <<>> (absent)
SizedWindow(w, size, border, request_size, request_border) ==
    LET cs == {"Window", "PrefferedSize", "Size", "Border"}
                \cup (IF request_size # <<>> THEN {"RequestSize"} ELSE {})
                \cup (IF request_border # <<>> THEN {"RequestBorder"} ELSE {})
    IN  [c \in cs |->
            CASE c = "Window" -> w
              [] c = "PrefferedSize" -> size
              [] c = "Size" -> size
              [] c = "Border" -> border
              [] c = "RequestSize" -> request_size[1]
              [] c = "RequestBorder" -> request_border[1]]

InitResize ==
    /\ Bootstrapped
    /\ family = "geometry"
    /\ pc = "process_request_resize"
    /\ batch = <<>>
    /\ queue = <<>>
    /\ events = <<>>
    /\ \E w \in Windows, size \in SmallRegions, border \in Borders,
          request_size \in {<<>>} \cup {<<r>> : r \in SmallRegions},
          request_border \in {<<>>} \cup {<<b>> : b \in Borders} :
          /\ world = [id \in {1} |->
                         SizedWindow(w, size, border, request_size, request_border)]
          /\ live = {w}
    /\ added = {<<id, c>> : id \in DOMAIN world, c \in Tracked \cap DOMAIN world[1]}
    /\ buffers = NoBuffers
    /\ requests = <<>>
    /\ pre = world
    /\ owed = {}
    /\ balanced = {}
    /\ log = <<>>

NextResize ==
    \/ process_request_resize
    \/ apply_postupdate
    \/ flush_xcb

SpecResize == InitResize /\ [][NextResize]_vars

\* ------------------------------------------- reconciliation of markers
\* The desired-state markers are attached by the policy layer.  A run of
\* SpecReconcile starts with one window whose entity carries Size and Border
\* and any combination of newly attached markers, and goes through whole
\* iterations in which the server reports geometry and mapping of the window.
RequestMaps == {"Map", "Unmap"}

MarkedWindow(w, size, border, request_size, request_border, request_map, is_mapped) ==
    SizedWindow(w, size, border, request_size, request_border)
        @@ (IF request_map # <<>> THEN "RequestMap" :> request_map[1] ELSE <<>>)
        @@ (IF is_mapped THEN "IsMapped" :> TRUE ELSE <<>>)

InitReconcile ==
    /\ Bootstrapped
    /\ family = "notify"
    /\ pc = "wait_for_xcb_events"
    /\ batch = <<>>
    /\ queue = <<>>
    /\ events = <<>>
    /\ \E size \in Regions, border \in Borders,
          request_size \in {<<>>} \cup {<<r>> : r \in Regions},
          request_border \in {<<>>} \cup {<<b>> : b \in Borders},
          request_map \in {<<>>} \cup {<<m>> : m \in RequestMaps},
          is_mapped \in BOOLEAN :
          world = [id \in {1} |->
                      MarkedWindow(7, size, border, request_size, request_border,
                                   request_map, is_mapped)]
    /\ live = {7}
    /\ added = {<<id, c>> : id \in DOMAIN world, c \in Tracked \cap DOMAIN world[1]}
    /\ buffers = NoBuffers
    /\ requests = <<>>
    /\ pre = world
    /\ owed = {}
    /\ balanced = {}
    /\ log = <<>>

SpecReconcile == InitReconcile /\ [][Next]_vars

InitXConn == InitBoot /\ LoopNotStarted

\* -------------------------------------------- the loop with map requests counted
\* the loop of Spec over the mapping events, with every window counted from
\* the first iteration on
InitMapCount ==
    /\ family = "mapping"
    /\ pc = "wait_for_xcb_events"
    /\ batch = <<>>
    /\ queue = <<>>
    /\ events = <<>>
    /\ world = NoEntities
    /\ added = {}
    /\ buffers = NoBuffers
    /\ requests = <<>>
    /\ live = {}
    /\ pre = NoEntities
    /\ owed = {}
    /\ balanced = Windows
    /\ log = <<>>
    /\ Bootstrapped

SpecMapCount == InitMapCount /\ [][Next]_vars

NextXConn ==
    \E c \in Conns :
        \/ connect(c)
        \/ send_requests(c)
        \/ get_extension_data(c)
        \/ set_randr_base(c)
        \/ get_reply(c)
        \/ create_window_check(c)
        \/ select_input_check(c)
        \/ from_world(c)
        \/ drop(c)
        \/ reset_randr_base(c)

SpecXConn == InitXConn /\ [][NextXConn]_vars

TypeOK == pc \in Systems \cup {"wait_for_xcb_events", "process_xcb_events", "apply_update",
                               "apply_postupdate", "flush_xcb", "panicked"}

\* ================================================================= claims
Max(S) == CHOOSE m \in S : \A n \in S : m >= n

\* the entities of window w
EntitiesOf(wd, w) == {id \in DOMAIN wd : "Window" \in DOMAIN wd[id] /\ wd[id]["Window"] = w}

\* the entities that existed when the iteration started and still exist
Surviving == DOMAIN world \cap DOMAIN pre

\* the last event of this batch among the given types for window w, as a
\* one-element sequence, or <<>>
LastOf(types, w) ==
    LET idx == {i \in DOMAIN batch : batch[i].type \in types /\ batch[i].window = w}
    IN  IF idx = {} THEN <<>> ELSE <<batch[Max(idx)]>>

\* this step applies the command buffer of system s at the end of Update
AppliedUpdateBuffer(s) ==
    pc = "apply_update" /\ buffers[s] # <<>> /\ buffers'[s] = <<>>

\* C1: between iterations the entity table holds exactly one entity for every
\* window whose latest CreateNotify has not been followed by a DestroyNotify,
\* and no entity for any other window, however the events were batched.
C1_EntitiesAreLiveWindows ==
    pc = "wait_for_xcb_events" =>
        \A w \in Windows :
            Cardinality(EntitiesOf(world, w)) = (IF w \in live THEN 1 ELSE 0)

\* C2: IsMapped is attached to an entity only when the commands of
\* mark_mapped_windows are applied for a MapNotify of its window, and is taken
\* from an entity only when the commands of mark_unmapped_windows are applied
\* for an UnmapNotify of its window or the entity is despawned for a
\* DestroyNotify; no other step, in particular neither map_unmanaged_windows
\* nor process_request_map, attaches or removes it.
C2_MappedOnlyByNotify ==
    [][\A id \in EntityIds :
        /\ (~Has(world, id, "IsMapped") /\ Has(world', id, "IsMapped")) =>
              /\ AppliedUpdateBuffer("mark_mapped_windows")
              /\ \E i \in DOMAIN events : events[i] = MapNotify(world'[id]["Window"])
        /\ (Has(world, id, "IsMapped") /\ ~Has(world', id, "IsMapped")) =>
              \/ /\ AppliedUpdateBuffer("mark_unmapped_windows")
                 /\ \E i \in DOMAIN events : events[i] = UnmapNotify(world[id]["Window"])
              \/ /\ AppliedUpdateBuffer("despawn_windows")
                 /\ id \notin DOMAIN world'
                 /\ \E i \in DOMAIN events : events[i] = DestroyNotify(world[id]["Window"])
      ]_vars

\* an entity became mapped in an iteration whose batch carried both a
\* MapRequest and a MapNotify of its window
C2_Witness ==
    \E id \in Surviving :
        /\ Has(world, id, "IsMapped") /\ ~Has(pre, id, "IsMapped")
        /\ \E i, j \in DOMAIN events :
              /\ events[i] = MapRequest(world[id]["Window"])
              /\ events[j] = MapNotify(world[id]["Window"])

\* C3: when an iteration ends, an entity that existed throughout it and whose
\* window received a MapNotify or UnmapNotify in the batch carries IsMapped
\* exactly if the last of these events, in arrival order, was a MapNotify.
C3_MappedIffLastNotify ==
    pc = "flush_xcb" =>
        \A id \in Surviving :
            LET last == LastOf({"MapNotify", "UnmapNotify"}, world[id]["Window"])
            IN  last # <<>> => (Has(world, id, "IsMapped") <=> last[1].type = "MapNotify")

\* C4: a MapRequest for an entity with neither IsMapped nor IsManaged leads
\* to exactly one MapWindow request for its window: not more than one in the
\* iteration of the MapRequest, and one in the next iteration if that one
\* sent none.
C4_ExactlyOneMapWindow ==
    pc = "flush_xcb" =>
        \A w \in Windows :
            /\ (w \in MapOwedNow /\ w \notin owed) => MapsSent(w) <= 1
            /\ (w \in owed /\ \E id \in Surviving : world[id]["Window"] = w)
                  => MapsSent(w) >= 1

\* C5: when an iteration ends, an entity with IsManaged whose window received
\* a ConfigureRequest has the region of the last such request as its
\* PrefferedSize, and the request attached no RequestConfigure or RequestSize.
C5_ManagedConfigureRequest ==
    pc = "flush_xcb" =>
        \A id \in Surviving :
            LET last == LastOf({"ConfigureRequest"}, world[id]["Window"])
            IN  (Has(pre, id, "IsManaged") /\ last # <<>>) =>
                    /\ world[id]["PrefferedSize"] = last[1].region
                    /\ ~Has(world, id, "RequestConfigure")
                    /\ ~Has(world, id, "RequestSize")

\* C6: once the reconciliation pass of an iteration is over, no entity
\* carries a RequestMap marker: every marker the pass read was removed by it,
\* whether or not it sent a request for it.
C6_RequestMapConsumed ==
    pc \in {"flush_xcb", "wait_for_xcb_events", "process_xcb_events"} =>
        \A id \in DOMAIN world : ~Has(world, id, "RequestMap")

\* process_request_map has read a marker for which it sent nothing (Map for
\* an entity that is mapped) and has queued the removal of the marker
C6_Witness ==
    /\ pc = "apply_postupdate"
    /\ requests = <<>>
    /\ \E id \in DOMAIN world :
          /\ Has(world, id, "RequestMap") /\ Has(world, id, "IsMapped")
          /\ buffers["process_request_map"] = <<Remove(id, "RequestMap")>>

\* ------------------------------------------------------ bootstrap claims
ChangeWindowAttributes == [req |-> "ChangeWindowAttributes"]

InSeq(x, s) == \E i \in DOMAIN s : s[i] = x

\* C8: a connection whose event loop has been entered has issued the
\* change_window_attributes request that selects substructure-redirect,
\* substructure-notify and property-change on the root window, and has
\* checked its reply.
C8_LoopOnlyAfterRedirect ==
    \A c \in Conns :
        init_pc[c] = "running" =>
            /\ InSeq(ChangeWindowAttributes, sent[c])
            /\ InSeq(ChangeWindowAttributes, checked[c])

\* the intern_atom replies connection c has awaited
AtomRepliesAwaited(c) ==
    Cardinality({i \in DOMAIN checked[c] : checked[c][i].req = "InternAtom"})

\* C9: a connection that has an XConn has an atom id for every member of
\* Atom::ALL, so atom_id is defined for every atom; a connection has an
\* XConn from the moment init returns Ok; and a connection one of whose
\* intern_atom replies was an error has failed, has no XConn and never
\* enters the loop.
C9_AtomsAllOrNothing ==
    \A c \in Conns :
        /\ xconn[c] # None => DOMAIN xconn[c].atoms = Atoms
        /\ init_pc[c] \in {"from_world", "running"} => xconn[c] # None
        /\ (AtomRepliesAwaited(c) > Cardinality(DOMAIN replies[c])) =>
              /\ init_pc[c] = "failed"
              /\ xconn[c] = None

\* a connection failed on an intern_atom reply after it had collected some
\* atoms, and has no XConn
C9_Witness ==
    \E c \in Conns :
        /\ init_pc[c] = "failed"
        /\ AtomRepliesAwaited(c) > Cardinality(DOMAIN replies[c])
        /\ DOMAIN replies[c] # {}
        /\ xconn[c] = None

\* the connections whose set_randr_base returned Ok and that have not been
\* dropped since
Holders == {c \in Conns : acquired[c] = "Ok" /\ init_pc[c] # "dropped"}

\* C10: at most one connection holds RANDR_BASE at a time and RANDR_BASE is
\* the base code of the one that holds it; while a connection holds it no
\* other set_randr_base has returned Ok since; and as long as no connection
\* has been dropped, of the connections that have called set_randr_base
\* exactly one got Ok.
C10_OneHolder ==
    /\ Cardinality(Holders) <= 1
    /\ \A c \in Holders : RANDR_BASE = randr_base[c]
    /\ Holders = {} => (RANDR_BASE = RANDR_UNSET \/ \E c \in Conns : init_pc[c] = "dropped")
    /\ ((\E c \in Conns : acquired[c] # "None")
            /\ \A c \in Conns : init_pc[c] # "dropped")
          => Cardinality({c \in Conns : acquired[c] = "Ok"}) = 1

\* two connections with different base codes have both called
\* set_randr_base; one got Ok, the other Err, and RANDR_BASE is the base code
\* of the first
C10_Witness ==
    \E c, d \in Conns :
        /\ acquired[c] = "Ok" /\ acquired[d] = "Err"
        /\ randr_base[c] # randr_base[d]
        /\ RANDR_BASE = randr_base[c]
        /\ init_pc[c] # "dropped"

\* ------------------------------------------------- reconciliation claims
\* the ConfigureWindow requests sent for window w and not yet flushed
ConfiguresSent(w) ==
    Count(requests, LAMBDA r : r.req = "ConfigureWindow" /\ r.window = w)

\* the entity was matched by process_request_resize's query in the pass that
\* has just run, and its RequestSize (if attached) equals its Size and its
\* RequestBorder (if attached) equals its Border
ReconciledInSync(id) ==
    /\ id \in DOMAIN pre
    /\ \E c \in {"RequestSize", "RequestBorder"} : c \in DOMAIN pre[id]
    /\ "RequestSize" \in DOMAIN world[id] => world[id]["RequestSize"] = world[id]["Size"]
    /\ "RequestBorder" \in DOMAIN world[id] => world[id]["RequestBorder"] = world[id]["Border"]

\* C7: when process_request_resize has run over an entity whose RequestSize
\* equals its Size, and whose RequestBorder, if attached, equals its Border,
\* the value list built for it is empty and no ConfigureWindow request has
\* been sent for its window.
C7_InSyncSendsNothing ==
    pc = "apply_postupdate" =>
        \A id \in DOMAIN world :
            ReconciledInSync(id) =>
                /\ configure_fields(Opt(id, "RequestSize"), world[id]["Size"],
                                    Opt(id, "RequestBorder"), world[id]["Border"]) = <<>>
                /\ ConfiguresSent(world[id]["Window"]) = 0

\* the pass has run over an entity whose RequestSize and RequestBorder are
\* both attached and equal its Size and Border, with a width that differs
\* from the height
C7_Witness ==
    /\ pc = "apply_postupdate"
    /\ \E id \in DOMAIN world :
          /\ ReconciledInSync(id)
          /\ {"RequestSize", "RequestBorder"} \subseteq DOMAIN world[id]
          /\ world[id]["Size"].w # world[id]["Size"].h
          /\ requests = <<>>

\* ------------------------------------------------------- teardown claims
\* the last n elements of s
LastN(s, n) == SubSeq(s, Len(s) - n + 1, Len(s))

\* C11: a connection whose teardown has reached the release of RANDR_BASE
\* has, as its last requests and in this order, ungrabbed the keys of the
\* root window, destroyed the check window, deleted the active-window
\* property and flushed; RANDR_BASE is still its base code until the release
\* and is unset after it for as long as no other connection acquires it.
C11_TeardownOrder ==
    \A c \in Conns :
        /\ init_pc[c] \in {"reset_randr_base", "dropped"} =>
              /\ Len(sent[c]) >= 4
              /\ LastN(sent[c], 4)[1] = UngrabKey
              /\ LastN(sent[c], 4)[2] = DestroyWindow
              /\ LastN(sent[c], 4)[3].req = "DeleteProperty"
              /\ LastN(sent[c], 4)[3].atom = replies[c]["NetActiveWindow"]
              /\ LastN(sent[c], 4)[4] = Flush
        /\ init_pc[c] = "reset_randr_base" => RANDR_BASE = randr_base[c]
        /\ (init_pc[c] = "dropped" /\ Holders = {}) => RANDR_BASE = RANDR_UNSET

\* a connection has been torn down and another one has acquired RANDR_BASE
\* after it
C11_Witness ==
    \E c, d \in Conns :
        /\ init_pc[c] = "dropped"
        /\ acquired[c] = "Ok" /\ acquired[d] = "Ok"
        /\ c # d
        /\ RANDR_BASE = randr_base[d]

\* ------------------------------------------------------- schedule claims
\* the stage a position of the loop belongs to: 1 First (ingestion),
\* 2 Update (lifecycle), 3 PostUpdate (reconciliation), 4 Last (flush)
StageOf(p) ==
    CASE p \in {"wait_for_xcb_events", "process_xcb_events"} -> 1
      [] p \in {UpdateSystems[i] : i \in DOMAIN UpdateSystems} \cup {"apply_update"} -> 2
      [] p \in {PostUpdateSystems[i] : i \in DOMAIN PostUpdateSystems}
                 \cup {"apply_postupdate"} -> 3
      [] p = "flush_xcb" -> 4
      [] OTHER -> 0

IsPrefix(s, t) == Len(s) <= Len(t) /\ SubSeq(t, 1, Len(s)) = s

FlushFailed == \E i \in DOMAIN log : log[i] = "xcb flush returned error"

\* C13: once a flush has reported a failure the loop does not go on: the
\* wait for the events of a further iteration is not entered.
C13_FlushFailureIsFatal ==
    [][~(FlushFailed /\ pc = "wait_for_xcb_events" /\ pc' = "process_xcb_events")]_vars

\* ------------------------------------------------------- scenario claims
\* the entities spawned in this iteration
Spawned == DOMAIN world \ DOMAIN pre

\* entity id existed when the iteration started, carried IsManaged, and a
\* MapRequest of its window is among the events of the iteration
ManagedMapRequested(id) ==
    /\ id \in DOMAIN pre
    /\ Has(pre, id, "IsManaged")
    /\ InSeq(MapRequest(pre[id]["Window"]), events)

\* at the end of an iteration: an entity spawned in it with IsManaged comes
\* from a CreateNotify of its window without override_redirect and has the
\* region of that event as PrefferedSize; an entity whose window received a
\* DestroyNotify is gone
CreatedAndDestroyed ==
    pc = "flush_xcb" =>
        /\ \A id \in Spawned :
              \E i \in DOMAIN events :
                  /\ events[i].type = "CreateNotify"
                  /\ events[i].window = world[id]["Window"]
                  /\ events[i].region = world[id]["PrefferedSize"]
                  /\ events[i].override_redirect = ~Has(world, id, "IsManaged")
        /\ \A id \in DOMAIN pre :
              InSeq(DestroyNotify(pre[id]["Window"]), events) => id \notin DOMAIN world

UnmanagedMapRequested(w) ==
    /\ ~InSeq(DestroyNotify(w), batch)
    /\ \E j \in DOMAIN batch :
          /\ batch[j] = MapRequest(w)
          /\ \E id \in EntitiesOf(world, w) :
                /\ ~Has(world, id, "IsManaged")
                /\ \/ id \in DOMAIN pre
                   \/ \E i \in 1..(j - 1) :
                         batch[i].type = "CreateNotify" /\ batch[i].window = w

\* C15, in the form a finite run refutes: when an iteration ends, a
\* MapRequest it received for a window created with override_redirect is
\* not lost: a MapWindow request for the window has been emitted, or an
\* entity of the window carries RequestMap for a later pass, or IsMapped.
C15_MapRequestLeadsToMap ==
    pc = "flush_xcb" =>
        \A w \in Windows :
            UnmanagedMapRequested(w) =>
                \/ InSeq(MapWindow(w), requests)
                \/ \E id \in EntitiesOf(world, w) :
                      Has(world, id, "RequestMap") \/ Has(world, id, "IsMapped")

\* ------------------------------------------------------------------- C16
\* the event types the plugin registers a domain event for and the contract
\* lists as forwarded
ListedTypes ==
    {"KeyPress", "KeyRelease", "ButtonPress", "ButtonRelease", "MotionNotify",
     "EnterNotify", "LeaveNotify", "FocusIn", "FocusOut", "CreateNotify",
     "DestroyNotify", "MapNotify", "UnmapNotify", "MapRequest", "ConfigureNotify",
     "ConfigureRequest", "ClientMessage", "ScreenChangeNotify"}

\* C16: once the batch is decoded, every wire event of a listed type has been
\* forwarded as exactly one domain event of that type: for each listed type
\* the domain events of the type are the wire events of the type, none
\* dropped, duplicated or merged.
C16_ListedEventsForwarded ==
    pc \notin {"wait_for_xcb_events", "process_xcb_events"} =>
        \A T \in ListedTypes : EventReader(T) = SelectSeq(batch, LAMBDA e : e.type = T)

\* ------------------------------------------------------------------- C17
\* the type of the EventReader each lifecycle system of the Update stage has
Reads ==
    [spawn_windows |-> "CreateNotify", despawn_windows |-> "DestroyNotify",
     map_unmanaged_windows |-> "MapRequest", mark_mapped_windows |-> "MapNotify",
     mark_unmapped_windows |-> "UnmapNotify",
     mark_preffered_size_windows |-> "ConfigureRequest",
     mark_size_windows |-> "ConfigureNotify"]

\* the domain events in the order the systems handle them: each system drains
\* the queue of its own type when it runs
Observed ==
    Flatten([i \in DOMAIN UpdateSystems |->
                IF UpdateSystems[i] \in DOMAIN Reads
                THEN EventReader(Reads[UpdateSystems[i]]) ELSE <<>>])

\* C17: when the systems of the Update stage have run, they have handled the
\* domain events of the batch in the order the events arrived on the wire,
\* also where two events are of different types.
C17_WireOrderObserved ==
    pc = "apply_update" =>
        Observed = SelectSeq(events, LAMBDA e : \E s \in DOMAIN Reads : Reads[s] = e.type)

\* ------------------------------------------------------------------- C18
\* the wire events try_from answers with Err
Unrecognized(e) == ~try_from(response_type(e)).ok

\* the events of b the loop of process_xcb_events comes to: all of them, or
\* those up to the one whose match arm panics
RECURSIVE Handled(_)
Handled(b) ==
    IF Len(b) = 0 THEN <<>>
    ELSE IF forward(Head(b)).panicked THEN <<Head(b)>>
    ELSE <<Head(b)>> \o Handled(Tail(b))

\* C18: decoding logs one warning for every event with an unrecognized tag
\* that it comes to and discards it: no domain event comes of it, no entity
\* changes, no request is emitted, and the other events of the batch are
\* decoded as they are without it: the domain events are theirs and the
\* iteration goes on to the Update stage as it does for them alone.
C18_UnrecognizedDiscarded ==
    [][pc = "process_xcb_events" =>
          /\ \A i \in DOMAIN events' : ~Unrecognized(events'[i])
          /\ events' = decode(SelectSeq(batch, LAMBDA e : ~Unrecognized(e))).events
          /\ Len(log') = Len(log) + Count(Handled(batch), Unrecognized)
          /\ \A i \in DOMAIN log' : i > Len(log) => log'[i] = "unrecognized event type"
          /\ world' = world /\ requests' = requests /\ buffers' = buffers
          /\ pc' = IF decode(SelectSeq(batch, LAMBDA e : ~Unrecognized(e))).panicked
                   THEN "panicked" ELSE UpdateSystems[1]]_vars

\* an unrecognized event came first in a batch, was logged, and the create
\* event behind it was decoded and has spawned its entity
C18_Witness ==
    /\ pc = "flush_xcb"
    /\ batch = <<Unknown, CreateNotify(7, R0, FALSE)>>
    /\ events = <<CreateNotify(7, R0, FALSE)>>
    /\ log = <<"unrecognized event type">>
    /\ \E id \in DOMAIN world : world[id]["Window"] = 7

\* ------------------------------------------------------------------- C19
\* the request markers of lib.rs and xcb_request_systems.rs
RequestMarkers == {"RequestMap", "RequestConfigure", "RequestSize", "RequestBorder"}

\* C19: when the commands of the Update stage have been applied, every
\* CreateNotify of the iteration has a new entity that carries the window of
\* the event, PrefferedSize equal to its geometry, PrefferedBorder equal to its
\* border width, IsManaged exactly if override_redirect is false, and neither
\* IsMapped nor a request marker.
C19_CreateTransition ==
    pc = PostUpdateSystems[1] =>
        \A i \in DOMAIN events :
            events[i].type = "CreateNotify" =>
                \E id \in DOMAIN world \ DOMAIN pre :
                    /\ world[id]["Window"] = events[i].window
                    /\ Has(world, id, "PrefferedSize")
                    /\ world[id]["PrefferedSize"] = events[i].region
                    /\ Has(world, id, "PrefferedBorder")
                    /\ world[id]["PrefferedBorder"] = events[i].border_width
                    /\ Has(world, id, "IsManaged") <=> ~events[i].override_redirect
                    /\ ~Has(world, id, "IsMapped")
                    /\ \A m \in RequestMarkers : ~Has(world, id, m)

\* ------------------------------------------------------------------- C20
\* C20: when an iteration ends, every entity that was there when it began and
\* is still there, managed or not, whose window received a ConfigureRequest,
\* has the region of the last such request as its PrefferedSize.
C20_ConfigureRequestSetsPrefferedSize ==
    pc = "flush_xcb" =>
        \A id \in Surviving :
            LET last == LastOf({"ConfigureRequest"}, world[id]["Window"])
            IN  Len(last) > 0 =>
                    /\ Has(world, id, "PrefferedSize")
                    /\ world[id]["PrefferedSize"] = last[1].region

\* ------------------------------------------------------------------- C21
\* C21: when the reconciliation pass of an iteration is over, every entity
\* without IsManaged that was there when the iteration began and whose window
\* received a ConfigureRequest with a region other than its Size (or that has
\* no Size yet) has had a ConfigureWindow request sent for its window.
C21_UnmanagedConfigureHonored ==
    pc = "flush_xcb" =>
        \A id \in Surviving :
            LET last == LastOf({"ConfigureRequest"}, world[id]["Window"])
            IN  (/\ ~Has(pre, id, "IsManaged")
                 /\ Len(last) > 0
                 /\ ~Has(pre, id, "Size") \/ pre[id]["Size"] # last[1].region)
                    => ConfiguresSent(world[id]["Window"]) >= 1

\* ------------------------------------------------------------------- C22
\* the requests the step being taken appends
NewRequests == SubSeq(requests', Len(requests) + 1, Len(requests'))

\* C22: the pass of process_request_map sends, for every entity whose
\* RequestMap it reads, one MapWindow if the marker is Map and the entity
\* lacks IsMapped, one UnmapWindow if the marker is Unmap and the entity has
\* IsMapped, and nothing in the two other cases: at most one request per
\* entity.
C22_RequestMapDecisionTable ==
    [][pc = "process_request_map" =>
          \A id \in DOMAIN world :
              (Has(world, id, "RequestMap") /\ <<id, "RequestMap">> \in added) =>
                  LET w == world[id]["Window"]
                      maps == Count(NewRequests,
                                    LAMBDA r : r.req = "MapWindow" /\ r.window = w)
                      unmaps == Count(NewRequests,
                                      LAMBDA r : r.req = "UnmapWindow" /\ r.window = w)
                  IN  /\ maps = IF world[id]["RequestMap"] = "Map"
                                   /\ ~Has(world, id, "IsMapped") THEN 1 ELSE 0
                      /\ unmaps = IF world[id]["RequestMap"] = "Unmap"
                                     /\ Has(world, id, "IsMapped") THEN 1 ELSE 0
                      /\ maps + unmaps <= 1]_vars

\* the pass has read RequestMap(Unmap) on a mapped entity and sent the one
\* UnmapWindow request
C22_Witness ==
    /\ pc = "process_request_resize"
    /\ Has(world, 1, "RequestMap") /\ world[1]["RequestMap"] = "Unmap"
    /\ Has(world, 1, "IsMapped")
    /\ requests = <<UnmapWindow(7)>>

\* ------------------------------------------------------------------- C23
\* the fields of a ConfigureWindow value list that come of RequestSize, with
\* the field of Region each is taken from
SizeFields == [X |-> "x", Y |-> "y", Width |-> "w", Height |-> "h"]

\* the fields whose requested value differs from the confirmed one, each with
\* the requested value
DifferingFields(id) ==
    {<<f, world[id]["RequestSize"][SizeFields[f]]>> :
        f \in {g \in DOMAIN SizeFields :
                  /\ Has(world, id, "RequestSize")
                  /\ world[id]["RequestSize"][SizeFields[g]]
                         # world[id]["Size"][SizeFields[g]]}}
    \cup {<<"BorderWidth", world[id]["RequestBorder"]>> :
             b \in {c \in {"RequestBorder"} :
                       /\ Has(world, id, c)
                       /\ world[id][c] # world[id]["Border"]}}

\* process_request_resize's query yields the entity in the pass about to run
ResizeMatched(id) ==
    /\ {"Window", "Size", "Border"} \subseteq DOMAIN world[id]
    /\ <<id, "RequestSize">> \in added \/ <<id, "RequestBorder">> \in added

\* C23: the pass of process_request_resize sends, for every entity it reads,
\* no ConfigureWindow request if no requested field differs from Size and
\* Border, and otherwise one single request whose value list holds exactly
\* the fields that differ, each once and with the requested value.
C23_ConfigureCarriesDiff ==
    [][pc = "process_request_resize" =>
          \A id \in DOMAIN world :
              ResizeMatched(id) =>
                  LET cfgs == SelectSeq(NewRequests,
                                  LAMBDA r : /\ r.req = "ConfigureWindow"
                                             /\ r.window = world[id]["Window"])
                  IN  IF DifferingFields(id) = {} THEN Len(cfgs) = 0
                      ELSE /\ Len(cfgs) = 1
                           /\ {cfgs[1].value_list[i] : i \in DOMAIN cfgs[1].value_list}
                                  = DifferingFields(id)
                           /\ Len(cfgs[1].value_list) = Cardinality(DifferingFields(id))]_vars

\* the pass has sent one request with exactly the two fields that differ, of
\* an entity whose y, width and height are as requested
C23_Witness ==
    /\ pc = "apply_postupdate"
    /\ {"RequestSize", "RequestBorder"} \subseteq DOMAIN world[1]
    /\ world[1]["RequestSize"].y = world[1]["Size"].y
    /\ world[1]["RequestSize"].w = world[1]["Size"].w
    /\ world[1]["RequestSize"].h = world[1]["Size"].h
    /\ requests = <<ConfigureWindow(world[1]["Window"],
                                    <<<<"X", 1>>, <<"BorderWidth", 1>>>>)>>

\* ------------------------------------------------------------------- C24
\* the markers whose new attachment makes a reconciler send the request r
MarkersOf(r) ==
    IF r.req = "ConfigureWindow" THEN {"RequestSize", "RequestBorder"}
    ELSE IF r.req \in {"MapWindow", "UnmapWindow"} THEN {"RequestMap"}
    ELSE {}

\* C24: a map, unmap or configure request is sent for a window only in a pass
\* in which a marker of its entity counts as newly attached, and the pass
\* that has read a marker no longer counts it as newly attached: a marker
\* attached once is reconciled once, and a RequestSize or RequestBorder that
\* stays on the entity causes no request in later iterations.
C24_OnlyNewMarkersReconciled ==
    [][/\ \A i \in DOMAIN NewRequests :
              \E id \in DOMAIN world :
                  /\ Has(world, id, "Window")
                  /\ world[id]["Window"] = NewRequests[i].window
                  /\ \E m \in MarkersOf(NewRequests[i]) : <<id, m>> \in added
       /\ pc = "process_request_map" =>
              \A p \in added' : p[2] # "RequestMap"
       /\ pc = "process_request_resize" =>
              \A p \in added' : p[2] \notin {"RequestSize", "RequestBorder"}]_vars

\* a later pass has run over an entity that still carries a RequestSize other
\* than its Size, attached in an earlier iteration, and has sent nothing
C24_Witness ==
    /\ pc = "apply_postupdate"
    /\ Has(world, 1, "RequestSize")
    /\ world[1]["RequestSize"] # world[1]["Size"]
    /\ world[1]["Size"] = pre[1]["Size"]
    /\ added = {}
    /\ requests = <<>>

\* ------------------------------------------------------------------- C25
\* C25: when the reconciliation pass of an iteration is over and its commands
\* are applied, no entity that process_request_resize reads (one with Window,
\* Size and Border) carries a RequestSize or a RequestBorder.
C25_ResizeMarkersConsumed ==
    pc = "flush_xcb" =>
        \A id \in DOMAIN world :
            {"Window", "Size", "Border"} \subseteq DOMAIN world[id] =>
                /\ ~Has(world, id, "RequestSize")
                /\ ~Has(world, id, "RequestBorder")

\* ------------------------------------------------------------------- C26
\* the components of entity id in wd other than those in cs
Others(wd, id, cs) == [c \in DOMAIN wd[id] \ cs |-> wd[id][c]]

\* C26: when the commands of the Update stage have been applied, an entity
\* whose window received MapNotify events and no UnmapNotify has IsMapped and
\* no RequestMap, an entity whose window received UnmapNotify events and no
\* MapNotify has neither IsMapped nor RequestMap, and in both cases its other
\* components (but for Size, which a ConfigureNotify sets) are as they were.
C26_MapUnmapTransitions ==
    pc = PostUpdateSystems[1] =>
        \A id \in Surviving :
            LET w == world[id]["Window"]
                mapped == Len(LastOf({"MapNotify"}, w)) > 0
                unmapped == Len(LastOf({"UnmapNotify"}, w)) > 0
            IN  /\ (mapped /\ ~unmapped) =>
                       /\ Has(world, id, "IsMapped")
                       /\ ~Has(world, id, "RequestMap")
                /\ (unmapped /\ ~mapped) =>
                       /\ ~Has(world, id, "IsMapped")
                       /\ ~Has(world, id, "RequestMap")
                /\ (mapped # unmapped) =>
                       Others(world, id, {"IsMapped", "RequestMap", "Size"})
                           = Others(pre, id, {"IsMapped", "RequestMap", "Size"})

\* ------------------------------------------------------------------- C27
\* C27: when the commands of the Update stage have been applied, every entity
\* that was there when the iteration began, managed or not, whose window
\* received a ConfigureNotify, has the region of the last such event as its
\* Size and its border width as its Border: the values the reconciliation
\* pass that follows compares the requested ones with.
C27_ConfigureNotifySetsActual ==
    pc = PostUpdateSystems[1] =>
        \A id \in Surviving :
            LET last == LastOf({"ConfigureNotify"}, world[id]["Window"])
            IN  Len(last) > 0 =>
                    /\ Has(world, id, "Size")
                    /\ world[id]["Size"] = last[1].region
                    /\ Has(world, id, "Border")
                    /\ world[id]["Border"] = last[1].border_width

\* ------------------------------------------------------------------- C28
\* the event types a lifecycle system or the policy matches to an entity by
\* the window of the event
MatchedTypes ==
    {"DestroyNotify", "MapRequest", "MapNotify", "UnmapNotify", "ConfigureRequest",
     "ConfigureNotify"}

\* the windows the events of the batch that are matched to entities name
Addressed == {batch[i].window : i \in {j \in DOMAIN batch : batch[j].type \in MatchedTypes}}

\* C28: when an iteration ends (or a command panics), every entity whose
\* window no destroy, map-request, map-notify, unmap-notify, configure-request
\* or configure-notify event of the batch names is exactly as it was when the
\* iteration began and no request was sent for its window; if the batch holds
\* such events only and none names the window of an entity, the entity table
\* is as it was and no request was sent at all.
C28_MatchByWindow ==
    pc \in {"flush_xcb", "panicked"} =>
        /\ \A id \in DOMAIN pre :
               pre[id]["Window"] \notin Addressed =>
                   /\ id \in DOMAIN world
                   /\ world[id] = pre[id]
                   /\ \A i \in DOMAIN requests : requests[i].window # pre[id]["Window"]
        /\ (/\ \A i \in DOMAIN batch : batch[i].type \in MatchedTypes
            /\ \A id \in DOMAIN pre : pre[id]["Window"] \notin Addressed)
               => world = pre /\ requests = <<>>

\* of two entities the batch named the window of one only: that one is gone
\* and the other is untouched
C28_Witness ==
    /\ pc = "flush_xcb"
    /\ batch = <<DestroyNotify(7)>>
    /\ \E a, b \in DOMAIN pre :
          /\ pre[a]["Window"] = 7 /\ a \notin DOMAIN world
          /\ pre[b]["Window"] = 9 /\ b \in DOMAIN world /\ world[b] = pre[b]

\* ------------------------------------------------------------------- C29
\* what the end of a stage makes of the world when it applies the command
\* buffers in the order ss: the entity table with its Added marks, or the
\* abort of the process
Outcome(ss) ==
    LET st == ApplyAll([world |-> world, added |-> added, panicked |-> FALSE],
                       Flatten([i \in DOMAIN ss |-> buffers[ss[i]]]))
    IN  IF st.panicked THEN <<"panicked">> ELSE <<st.world, st.added>>

\* C29: whenever command buffers of the Update stage wait to be applied,
\* applying any one of them first and the others after it ends as applying
\* them in the order the systems were added does: either both orders complete
\* the stage or both abort, so that whether the iteration reaches its end with
\* an entity table and requests at all does not depend on the order in which
\* the handlers take effect.
C29_OrderIndependent ==
    pc = "apply_update" =>
        \A i \in DOMAIN UpdateSystems :
            (Outcome(<<UpdateSystems[i]>>
                        \o SelectSeq(UpdateSystems, LAMBDA s : s # UpdateSystems[i]))
                 = <<"panicked">>)
                <=> (Outcome(UpdateSystems) = <<"panicked">>)

\* ------------------------------------------------------------------- C30
\* C30: the batch handed to decoding is what the connection held for the
\* iteration, the event of the blocking wait first and the polled events
\* after it, in arrival order and each once, and it is never empty.
C30_BatchIsQueueAndNonEmpty ==
    pc = "process_xcb_events" => (batch = queue /\ Len(batch) > 0)

\* ------------------------------------------------------------------- C31
\* C31: the systems of the Update, PostUpdate and Last stages run only in an
\* iteration whose blocking wait has delivered an event: when the wait
\* returned None no later stage of the iteration is entered.
C31_StagesOnlyAfterEvent ==
    (pc \in Systems \cup {"apply_update", "apply_postupdate", "flush_xcb"})
        => Len(queue) > 0

\* ------------------------------------------------------------------- C32
\* every value of the response type byte
Tags == 0..255

\* the variant try_from answers with for the tag t, <<>> when it answers Err
Decoded(t) == IF try_from(t).ok THEN <<try_from(t).value>> ELSE <<>>

\* C32: while a base code is stored, a tag decodes to the screen-change type
\* exactly if its low seven bits are the base code plus 0 and to the notify
\* type of the extension exactly if they are the base code plus 1; a tag
\* whose low seven bits are a code of the core protocol decodes to neither,
\* and while no base code is stored no tag decodes to the notify type.
C32_ExtensionDecoding ==
    \A t \in Tags :
        LET masked == t % 128
        IN  /\ RANDR_BASE # RANDR_UNSET =>
                /\ Decoded(t) = <<"ScreenChangeNotify">>
                       <=> masked = RANDR_BASE + RandrCodes.ScreenChangeNotify
                /\ Decoded(t) = <<"RandrNotify">>
                       <=> masked = RANDR_BASE + RandrCodes.Notify
            /\ masked \in 2..35 =>
                   Decoded(t) \notin {<<"ScreenChangeNotify">>, <<"RandrNotify">>}
            /\ RANDR_BASE = RANDR_UNSET => Decoded(t) # <<"RandrNotify">>

\* the requests XConn::init is to issue before it awaits a reply
BootstrapRequests ==
    {InternAtom(as_str(a)) : a \in Atoms}
        \cup {CreateWindow, SelectInput, ChangeWindowAttributes}

\* C33: when a connection awaits the first reply of its bootstrap, the
\* intern-atom requests, the create-window request of the check window, the
\* extension's select-input request and the root window's
\* substructure-redirect request have all been issued; and when its
\* bootstrap has reported success the reply of every one of them has been
\* checked.
C33_FireAllThenCollect ==
    \A c \in Conns :
        /\ Len(checked[c]) > 0 => \A r \in BootstrapRequests : InSeq(r, sent[c])
        /\ init_pc[c] \in {"from_world", "running"} =>
              \A r \in BootstrapRequests : InSeq(r, checked[c])

\* ------------------------------------------------------ atom registry claims
\* the identifiers a property reply may carry: those the server assigned
\* to the atoms of Atom::ALL and one below and one above them
AtomIds == 0 .. Len(Atom_ALL) + 1

\* self.atoms.iter().find(|(_, v)| **v == id).map(|(k, _)| *k) if an
\* identifier without an entry were answered with the first atom
find_atom_or_first(c, id) ==
    LET found == {a \in DOMAIN xconn[c].atoms : xconn[c].atoms[a] = id}
    IN  IF found = {} THEN Ok(Atom_ALL[1]) ELSE Ok(CHOOSE a \in found : TRUE)
\* self.atoms.iter().find(|(_, v)| **v == id).map(|(k, _)| *k)
\*     .with_context(|| format!("atom with id {id} is not supported")):
\* the atom registered under id, or an Err for the caller
find_atom(c, id) ==
    LET found == {a \in DOMAIN xconn[c].atoms : xconn[c].atoms[a] = id}
    IN  IF found = {} THEN Err("not supported") ELSE Ok(CHOOSE a \in found : TRUE)

\* C34: the atoms of an XConn are those collected at bootstrap and no step
\* changes them while the XConn exists; for every atom of Atom::ALL the
\* reverse lookup of atom_id(atom) answers that atom; and the reverse lookup
\* of an identifier that no atom is registered under answers an Err.
C34_AtomRegistryBidirectional ==
    /\ [](\A c \in Conns :
            xconn[c] # None =>
                /\ xconn[c].atoms = replies[c]
                /\ \A a \in Atoms :
                      /\ a \in DOMAIN xconn[c].atoms
                      /\ find_atom(c, atom_id(c, a)) = Ok(a)
                /\ \A id \in AtomIds :
                      (\A a \in Atoms : atom_id(c, a) # id) => ~find_atom(c, id).ok)
    /\ [][\A c \in Conns :
            (xconn[c] # None /\ xconn'[c] # None) => xconn'[c].atoms = xconn[c].atoms]_vars

\* a connection runs with its XConn, a second connection has collected
\* atoms of its own since, and some identifier has no atom in the first
\* one's registry
C34_Witness ==
    \E c, d \in Conns :
        /\ c # d
        /\ init_pc[c] = "running" /\ xconn[c] # None
        /\ DOMAIN replies[d] # {}
        /\ \E a \in Atoms : find_atom(c, atom_id(c, a)) = Ok(a)
        /\ \E id \in AtomIds : ~find_atom(c, id).ok

\* ------------------------------------------------------------------- C35
\* the batch of this iteration has been decoded, its events carry a
\* DestroyNotify of window w and no CreateNotify of it, and w had an entity
\* when the iteration started
Destroyed(w) ==
    /\ StageOf(pc) \in 2..4 \/ pc = "panicked"
    /\ ~decode(batch).panicked
    /\ EntitiesOf(pre, w) # {}
    /\ InSeq(DestroyNotify(w), events)
    /\ \A i \in DOMAIN events : ~(events[i].type = "CreateNotify" /\ events[i].window = w)

\* C35: an iteration whose events carry a DestroyNotify of a window that
\* had an entity does not abort, whatever other events of the window share
\* the batch, and once the commands of its Update stage are applied no
\* entity of the window is left, hence none of its components.
C35_DestroyIsFinal ==
    \A w \in Windows :
        Destroyed(w) =>
            /\ pc # "panicked"
            /\ StageOf(pc) \in 3..4 => EntitiesOf(world, w) = {}

\* ------------------------------------------------------------------- C36
\* connection c has acquired RANDR_BASE and its init is still running or
\* has returned an XConn that is not dropped yet
Active(c) ==
    /\ acquired[c] = "Ok"
    /\ init_pc[c] \in {"atoms", "create_window_check", "select_input_check",
                       "from_world", "running", "reset_randr_base"}

\* C36: when a connection's bootstrap has failed after its set_randr_base
\* returned Ok, and no other connection is bootstrapping or running with
\* the slot, RANDR_BASE is unset again, so that the set_randr_base of a
\* later bootstrap succeeds.
C36_SlotReleasedOnFailure ==
    ((\E c \in Conns : init_pc[c] = "failed" /\ acquired[c] = "Ok")
        /\ \A c \in Conns : ~Active(c))
      => /\ RANDR_BASE = RANDR_UNSET
         /\ \A b \in BaseCodes : set_randr_base_result(RANDR_BASE, b).ok

\* ------------------------------------------------------------------- C37
\* window w had no entity when the iteration started, and the batch carries
\* its CreateNotify with override_redirect, a MapRequest of it after that,
\* and no DestroyNotify of it
CreatedAndMapRequested(w) ==
    /\ EntitiesOf(pre, w) = {}
    /\ ~InSeq(DestroyNotify(w), batch)
    /\ \E i, j \in DOMAIN batch :
          /\ i < j
          /\ batch[i].type = "CreateNotify" /\ batch[i].window = w
          /\ batch[i].override_redirect
          /\ batch[j] = MapRequest(w)

\* C37: when an iteration ends whose batch carried the CreateNotify of an
\* override-redirect window and then a MapRequest of it, the MapRequest has
\* taken effect: the entity spawned for the window carries RequestMap(Map)
\* for the next reconciliation pass, or a MapWindow request for the window
\* has been emitted in this one.
C37_SameBatchMapRequestKept ==
    pc = "flush_xcb" =>
        \A w \in Windows :
            CreatedAndMapRequested(w) =>
                \/ InSeq(MapWindow(w), requests)
                \/ \E id \in EntitiesOf(world, w) \cap Spawned :
                      Has(world, id, "RequestMap") /\ world[id]["RequestMap"] = "Map"

\* ------------------------------------------------------------------- C38
\* the wire events of the batch that process_xcb_events has a match arm for
Recognized(b) ==
    SelectSeq(b, LAMBDA e : /\ try_from(response_type(e)).ok
                            /\ try_from(response_type(e)).value \in Forwarded)

\* C38: decoding a batch does not abort the process, and every event of the
\* batch that has a match arm is forwarded as a domain event, a key press
\* whose child field is NONE included.
C38_DecodingNeverAborts ==
    [][pc = "process_xcb_events" =>
          /\ pc' # "panicked"
          /\ \A i \in DOMAIN Recognized(batch) : InSeq(Recognized(batch)[i], events')
      ]_vars

\* ------------------------------------------------------------------- C40
\* the values of randr_base: u8
U8 == 0..255

\* C40: when a connection is about to call set_randr_base and RANDR_BASE is
\* unset, then whatever u8 base code the call is made with, it returns Ok
\* and leaves RANDR_BASE held: a further set_randr_base, with any base code,
\* returns Err until the slot is reset.
C40_AcquiredSlotIsHeld ==
    (RANDR_BASE = RANDR_UNSET /\ \E c \in Conns : init_pc[c] = "set_randr_base") =>
        \A b \in U8 :
            LET first == set_randr_base_result(RANDR_BASE, b)
            IN  /\ first.ok
                /\ first.value # RANDR_UNSET
                /\ \A again \in U8 : ~set_randr_base_result(first.value, again).ok

\* ------------------------------------------------------------------- C39
\* C39: for every window that, up to the running iteration, has received as
\* many MapRequests as MapWindow requests were emitted for it, the MapWindow
\* requests emitted in the running iteration are not more than the
\* MapRequests of its batch, so that the requests emitted so far never
\* exceed the MapRequests received so far; and no MapWindow request has been
\* emitted for a window an entity of which carries IsMapped.
C39_MapsBoundedByMapRequests ==
    \A w \in Windows :
        /\ w \in balanced => MapsSent(w) <= MapRequestsReceived(w)
        /\ (\E id \in EntitiesOf(world, w) : Has(world, id, "IsMapped")) => MapsSent(w) = 0

====
